---- MODULE Spec2Model ----
(***************************************************************************)
(* State-machine model of send_cells::send_cell (SendCell<T>, SendFuture). *)
(* Threads call the methods of cells and futures they currently hold; a    *)
(* panic is recorded as the outcome of the call, a panic raised while      *)
(* another panic unwinds aborts the process.                               *)
(***************************************************************************)
EXTENDS Integers, Sequences, FiniteSets, TLC

\* ------------------------------------------------------------------ bounds
NumThreads == 2
MaxValue == 1
MaxPolls == 2
MaxCalls == 2

Threads == 1..NumThreads
Values == 0..MaxValue

\* The slots that hold the cells of the program.  No method reads or writes
\* a cell other than self, except that copying and preserving_cell_thread
\* create one more cell, so two slots let every method act; a slot is used
\* again once its cell, or the future made from it, is gone.
CellIds == {1, 2}

\* ------------------------------------------------------- payload types (T)
\* i32: Copy, no destructor.  Rc: Rc<i32>, has a destructor, not Copy.
\* NonSendFuture: the Future of the test module, owns an Rc<i32>.
\* PlainFuture: a Future whose type has no destructor (NonSendFuture without
\* its Rc), polled the same way.
Types == {"i32", "Rc", "NonSendFuture", "PlainFuture"}

needs_drop(ty) == ty \in {"Rc", "NonSendFuture"}

IsCopy(ty) == ty = "i32"

IsFuture(ty) == ty \in {"NonSendFuture", "PlainFuture"}

\* Poll::Ready(42) of NonSendFuture::poll
ReadyValue == 42

Pending == [poll |-> "Pending", out |-> 0]

Ready(v) == [poll |-> "Ready", out |-> v]

\* A value of type T: val is the integer it carries, ready the flag of a
\* NonSendFuture (FALSE for the other types).
Payload(ty, v, r) == [ty |-> ty, val |-> v, ready |-> r]

NonSendFuture_new(v) == Payload("NonSendFuture", v, FALSE)

\* NonSendFuture::poll: <<computation after the poll, outcome>>
NonSendFuture_poll(p) ==
    IF p.ready THEN <<p, Ready(ReadyValue)>>
    ELSE <<[p EXCEPT !.ready = TRUE], Pending>>

\* The integers a value of type ty is built from or overwritten with.  The
\* integer a NonSendFuture owns (_data) is never read, one stands for all.
ValuesOf(ty) == IF IsFuture(ty) THEN {0} ELSE Values

\* The value a caller builds for a payload of type ty carrying v.
MakeValue(ty, v) ==
    IF ty = "NonSendFuture" THEN NonSendFuture_new(v) ELSE Payload(ty, v, FALSE)

\* ------------------------------------------------ collaborators of SendCell
\* crate::sys::thread::current().id(): the identity of the calling thread.
current_id(t) == t

\* UnsafeSendCell<T>: transparent owner of T, no stored state, no checks.
UnsafeSendCell_new_unchecked(p) == p

UnsafeSendCell_get(u) == u

UnsafeSendCell_get_mut(u) == u

UnsafeSendCell_into_inner(u) == u

\* Option<_>: None is <<>>, Some(x) is <<x>>.
None == <<>>

Some(x) == <<x>>

\* --------------------------------------------------------------- the state
VARIABLES
    cell,     \* cell[c]: the SendCell in slot c
    fut,      \* fut[c]: the SendFuture made from the cell of slot c
    last,     \* the most recent call and its outcome
    aborted,  \* the process aborted (panic while panicking)
    written,  \* written[c]: the integer most recently stored in the cell of
              \* slot c by its creator or through a &mut T (history variable)
    sync,     \* the SyncCell shared by all threads
    thr       \* thr[t]: where thread t is in its call of with/with_mut

vars == <<cell, fut, last, aborted, written, sync, thr>>

\* The variables of the SendCell side and of the SyncCell side.
cellVars == <<cell, fut, last, aborted, written>>

syncVars == <<sync, thr>>

\* An unlocked mutex is held by no thread.
NoThread == 0

\* SyncCell::new(0): the value and a fresh mutex.
SyncCell_new(v) == [mutex |-> NoThread, poisoned |-> FALSE, value |-> v]

\* A thread outside with/with_mut: call is the call it is in, pc its
\* position there, tmp what its closure read, returned the number of its
\* with_mut calls that returned, res how its last call ended.
Outside(n, res) == [call |-> "none", pc |-> "out", tmp |-> 0, returned |-> n, res |-> res]

NoValue == 0 - 1

NoCell == [st |-> "free", ty |-> "none", inner |-> None, thread_id |-> 0, holder |-> 0]

NoFut == [st |-> "free", inner |-> None, thread_id |-> 0, holder |-> 0, npolls |-> 0]

\* struct SendCell<T> { inner: Option<UnsafeSendCell<T>>, thread_id: ThreadId }
\* held by thread h
SendCell(ty, inner, tid, h) ==
    [st |-> "live", ty |-> ty, inner |-> inner, thread_id |-> tid, holder |-> h]

\* struct SendFuture<T> { inner: UnsafeSendCell<T>, thread_id: ThreadId }
SendFuture(inner, tid, h, n) ==
    [st |-> "live", inner |-> Some(inner), thread_id |-> tid, holder |-> h, npolls |-> n]

\* The record of a call: op by thread t on the object of slot c, of payload
\* type ty, whose stored identity was stored; result is "ok", "panic" or "abort"; value is what was returned
\* (None when nothing was); events lists, in order, the violations raised
\* and the teardowns of a payload with a destructor that the call ran.
Call(op, t, c, ty, stored, result, value, events) ==
    [op |-> op, t |-> t, c |-> c, ty |-> ty, stored |-> stored, result |-> result,
     value |-> value, events |-> events]

Init ==
    /\ cell = [c \in CellIds |-> NoCell]
    /\ fut = [c \in CellIds |-> NoFut]
    /\ last = Call("init", 0, 0, "none", 0, "ok", None, <<>>)
    /\ aborted = FALSE
    /\ written = [c \in CellIds |-> NoValue]
    /\ sync = SyncCell_new(0)
    /\ thr = [t \in Threads |-> Outside(0, "none")]

FreeSlots == {c \in CellIds : cell[c].st = "free" /\ fut[c].st = "free"}

FirstFree == CHOOSE c \in FreeSlots : \A d \in FreeSlots : c <= d

Holds(t, c) == ~aborted /\ cell[c].st = "live" /\ cell[c].holder = t

HoldsFut(t, c) == ~aborted /\ fut[c].st = "live" /\ fut[c].holder = t

\* ------------------------------------------------------- SendCell methods
\* Each method is an operator from the cell (self) and the calling thread t
\* to an outcome [result, value, events, self], self being the cell after
\* the call, and an action that applies it to a slot.
Outcome(result, value, events, self) ==
    [result |-> result, value |-> value, events |-> events, self |-> self]

\* SendCell::new
new(t, ty, v) ==
    SendCell(ty, Some(UnsafeSendCell_new_unchecked(MakeValue(ty, v))), current_id(t), t)

\* Mutant of get_unchecked: the identity is asserted against the thread
\* that holds the cell.
get_unchecked_asserting(self) ==
    IF self.thread_id # current_id(self.holder)
    THEN Outcome("panic", None, <<"AffinityViolation">>, self)
    ELSE Outcome("ok", Some(UnsafeSendCell_get(self.inner[1])), <<>>, self)

\* SendCell::get_unchecked: self.inner.as_ref().expect("gone").get()
get_unchecked(self) ==
    IF self.inner = None THEN Outcome("panic", None, <<"gone">>, self)
    ELSE Outcome("ok", Some(UnsafeSendCell_get(self.inner[1])), <<>>, self)

\* Mutant of get: the assertion is missing.
get_unasserted(self, t) == get_unchecked(self)

\* SendCell::get
get(self, t) ==
    IF self.thread_id # current_id(t)
    THEN Outcome("panic", None, <<"AffinityViolation">>, self)
    ELSE get_unchecked(self)

\* Mutant of get_unchecked_mut: the reference handed out is to a copy of the
\* payload, the write never reaches the cell.
get_unchecked_mut_copy(self, w) ==
    IF self.inner = None THEN Outcome("panic", None, <<"gone">>, self)
    ELSE Outcome("ok", Some([self.inner[1] EXCEPT !.val = w]), <<>>, self)

\* SendCell::get_unchecked_mut, the caller then writing w through the &mut T
get_unchecked_mut(self, w) ==
    IF self.inner = None THEN Outcome("panic", None, <<"gone">>, self)
    ELSE LET p == [UnsafeSendCell_get_mut(self.inner[1]) EXCEPT !.val = w]
         IN Outcome("ok", Some(p), <<>>, [self EXCEPT !.inner = Some(p)])

\* Mutant of get_mut: the write is made before the identity is asserted.
get_mut_write_first(self, t, w) ==
    LET g == get_unchecked_mut(self, w)
    IN IF self.thread_id # current_id(t)
       THEN Outcome("panic", None, <<"AffinityViolation">>, g.self)
       ELSE g

\* SendCell::get_mut
get_mut(self, t, w) ==
    IF self.thread_id # current_id(t)
    THEN Outcome("panic", None, <<"AffinityViolation">>, self)
    ELSE get_unchecked_mut(self, w)

\* <T as Debug>::fmt for the payload types that have it: the decimal digits
\* of the integer (Rc<i32> formats as the i32 it points to).
Debug_fmt(p) == ToString(p.val)

HasDebug(ty) == ty \in {"i32", "Rc"}

\* impl Debug for SendCell: self.get().fmt(f)
fmt(self, t) ==
    LET g == get(self, t)
    IN IF g.result = "ok"
       THEN Outcome("ok", Some(Debug_fmt(g.value[1])), g.events, g.self)
       ELSE g

\* impl AsRef<T> for SendCell
as_ref(self, t) == get(self, t)

\* impl AsMut<T> for SendCell, the caller then writing w through the &mut T
as_mut(self, t, w) == get_mut(self, t, w)

\* Mutant of deref: routed through the unchecked accessor.
deref_unchecked(self, t) == get_unchecked(self)

\* impl Deref for SendCell
deref(self, t) == get(self, t)

\* impl DerefMut for SendCell, the caller then writing w through the &mut T
deref_mut(self, t, w) == get_mut(self, t, w)

\* Mutant of FieldTeardown: the payload's destructor runs whether or not
\* the payload was taken out of the cell.
FieldTeardown_after_take(self) ==
    IF needs_drop(self.ty) THEN <<"teardown">> ELSE <<>>

\* The teardown of the fields of a SendCell: the payload's destructor runs
\* if the payload is still in the cell and its type has one.
FieldTeardown(self) ==
    IF self.inner # None /\ needs_drop(self.ty) THEN <<"teardown">> ELSE <<>>

\* Mutant of drop: the payload is torn down before the identity is asserted.
drop_teardown_first(self, t, unwinding) ==
    IF needs_drop(self.ty) /\ self.thread_id # current_id(t)
    THEN IF unwinding
         THEN Outcome("abort", None, FieldTeardown(self) \o <<"AffinityViolation">>, self)
         ELSE Outcome("panic", None,
                      FieldTeardown(self) \o <<"AffinityViolation">>, NoCell)
    ELSE Outcome("ok", None, FieldTeardown(self), NoCell)

\* Mutant of drop: the identity is asserted whatever the payload type.
drop_always_asserts(self, t, unwinding) ==
    IF self.thread_id # current_id(t)
    THEN IF unwinding
         THEN Outcome("abort", None, <<"AffinityViolation">>, self)
         ELSE Outcome("panic", None,
                      <<"AffinityViolation">> \o FieldTeardown(self), NoCell)
    ELSE Outcome("ok", None, FieldTeardown(self), NoCell)

\* impl Drop for SendCell, followed by the teardown of the fields, which the
\* language runs whether or not Drop::drop panicked.  unwinding: the cell is
\* dropped because a panic is unwinding through its owner; a panic raised
\* then aborts the process.
drop(self, t, unwinding) ==
    IF needs_drop(self.ty) /\ self.thread_id # current_id(t)
    THEN IF unwinding
         THEN Outcome("abort", None, <<"AffinityViolation">>, self)
         ELSE Outcome("panic", None,
                      <<"AffinityViolation">> \o FieldTeardown(self), NoCell)
    ELSE Outcome("ok", None, FieldTeardown(self), NoCell)

\* What unwinding does with a value of type ty that a function had computed
\* as its result when a destructor of one of its locals panicked: the value
\* is torn down by the unwinding thread, or leaked.
UnwindValue(ty, leaked) ==
    IF needs_drop(ty) /\ ~leaked THEN <<"teardown">> ELSE <<>>

\* The outcomes of that choice for a function that drops self on thread t:
\* there is a choice only where the drop of self panics.
LeakChoices(self, t) ==
    IF needs_drop(self.ty) /\ self.thread_id # current_id(t) THEN BOOLEAN ELSE {FALSE}

\* Mutant of into_unchecked_inner: the payload is taken through a &mut self,
\* the emptied cell stays with the caller.
into_unchecked_inner_borrowing(self, t, leaked) ==
    IF self.inner = None THEN Outcome("panic", None, <<"gone">>, self)
    ELSE Outcome("ok", Some(UnsafeSendCell_into_inner(self.inner[1])), <<>>,
                 [self EXCEPT !.inner = None])

\* SendCell::into_unchecked_inner: take the payload out, then self goes out
\* of scope and is dropped.
into_unchecked_inner(self, t, leaked) ==
    IF self.inner = None
    THEN LET d == drop(self, t, TRUE)
         IN Outcome(IF d.result = "abort" THEN "abort" ELSE "panic", None,
                    <<"gone">> \o d.events, d.self)
    ELSE LET p == UnsafeSendCell_into_inner(self.inner[1])
             d == drop([self EXCEPT !.inner = None], t, FALSE)
         IN IF d.result = "ok"
            THEN Outcome("ok", Some(p), d.events, d.self)
            ELSE Outcome("panic", None, d.events \o UnwindValue(self.ty, leaked), d.self)

\* Mutant of into_inner: assert_ne! for assert_eq!.
into_inner_ne(self, t, leaked) ==
    IF self.thread_id = current_id(t)
    THEN LET d == drop(self, t, TRUE)
         IN Outcome(IF d.result = "abort" THEN "abort" ELSE "panic", None,
                    <<"AffinityViolation">> \o d.events, d.self)
    ELSE into_unchecked_inner(self, t, leaked)

\* SendCell::into_inner: on a failed assertion self is dropped by unwinding.
into_inner(self, t, leaked) ==
    IF self.thread_id # current_id(t)
    THEN LET d == drop(self, t, TRUE)
         IN Outcome(IF d.result = "abort" THEN "abort" ELSE "panic", None,
                    <<"AffinityViolation">> \o d.events, d.self)
    ELSE into_unchecked_inner(self, t, leaked)

\* Mutant of preserving_cell_thread: the new cell captures the identity of
\* the calling thread, as new() does.
preserving_cell_thread_recapture(self, t, ty, v) ==
    SendCell(ty, Some(UnsafeSendCell_new_unchecked(MakeValue(ty, v))), current_id(t), t)

\* SendCell::preserving_cell_thread, the new cell being held by the caller t
preserving_cell_thread(self, t, ty, v) ==
    SendCell(ty, Some(UnsafeSendCell_new_unchecked(MakeValue(ty, v))), self.thread_id, t)

\* Mutant of copying: the new cell holds T::default() instead of a copy.
copying_default(self, t) ==
    LET g == get_unchecked(self)
    IN IF g.result # "ok" THEN Outcome("panic", None, g.events, NoCell)
       ELSE Outcome("ok", g.value, <<>>,
                    preserving_cell_thread(self, t, self.ty, 0))

\* SendCell::copying (T: Copy)
copying(self, t) ==
    LET g == get_unchecked(self)
    IN IF g.result # "ok" THEN Outcome("panic", None, g.events, NoCell)
       ELSE Outcome("ok", g.value, <<>>,
                    preserving_cell_thread(self, t, self.ty, g.value[1].val))

\* Mutant of into_future: the future stores the identity of the calling thread.
into_future_recapture(self, t, leaked) ==
    IF self.inner = None
    THEN LET d == drop(self, t, TRUE)
         IN <<Outcome(IF d.result = "abort" THEN "abort" ELSE "panic", None,
                      <<"inner value missing">> \o d.events, d.self), NoFut>>
    ELSE LET f == SendFuture(self.inner[1], current_id(t), t, 0)
             d == drop([self EXCEPT !.inner = None], t, FALSE)
         IN IF d.result = "ok"
            THEN <<Outcome("ok", None, d.events, d.self), f>>
            ELSE <<Outcome("panic", None, d.events \o UnwindValue(self.ty, leaked),
                           d.self), NoFut>>

\* SendCell::into_future (T: Future): <<outcome, future>>; self is dropped
\* when the function ends, after the SendFuture has been built.
into_future(self, t, leaked) ==
    IF self.inner = None
    THEN LET d == drop(self, t, TRUE)
         IN <<Outcome(IF d.result = "abort" THEN "abort" ELSE "panic", None,
                      <<"inner value missing">> \o d.events, d.self), NoFut>>
    ELSE LET f == SendFuture(self.inner[1], self.thread_id, t, 0)
             d == drop([self EXCEPT !.inner = None], t, FALSE)
         IN IF d.result = "ok"
            THEN <<Outcome("ok", None, d.events, d.self), f>>
            ELSE <<Outcome("panic", None, d.events \o UnwindValue(self.ty, leaked),
                           d.self), NoFut>>

\* ----------------------------------------------------- SendFuture methods
\* Mutant of poll: the computation is advanced before the identity is asserted.
poll_then_assert(self, t) ==
    LET r == NonSendFuture_poll(UnsafeSendCell_get_mut(self.inner[1]))
        after == [self EXCEPT !.inner = Some(r[1])]
    IN IF self.thread_id # current_id(t)
       THEN Outcome("panic", None, <<"inner.poll", "AffinityViolation">>, after)
       ELSE Outcome("ok", Some(r[2]), <<"inner.poll">>, [after EXCEPT !.npolls = @ + 1])

\* Mutant of poll: a copy of the computation is advanced, the wrapped one
\* keeps its state.
poll_copy(self, t) ==
    IF self.thread_id # current_id(t)
    THEN Outcome("panic", None, <<"AffinityViolation">>, self)
    ELSE LET r == NonSendFuture_poll(UnsafeSendCell_get_mut(self.inner[1]))
         IN Outcome("ok", Some(r[2]), <<"inner.poll">>, [self EXCEPT !.npolls = @ + 1])

\* Mutant of poll: the assertion is missing.
poll_unasserted(self, t) ==
    LET r == NonSendFuture_poll(UnsafeSendCell_get_mut(self.inner[1]))
    IN Outcome("ok", Some(r[2]), <<"inner.poll">>,
               [self EXCEPT !.inner = Some(r[1]), !.npolls = @ + 1])

\* impl Future for SendFuture: poll.  npolls counts the polls that reached
\* the computation (history).
poll(self, t) ==
    IF self.thread_id # current_id(t)
    THEN Outcome("panic", None, <<"AffinityViolation">>, self)
    ELSE LET r == NonSendFuture_poll(UnsafeSendCell_get_mut(self.inner[1]))
         IN Outcome("ok", Some(r[2]), <<"inner.poll">>,
                    [self EXCEPT !.inner = Some(r[1]), !.npolls = @ + 1])

\* SendFuture has no Drop impl: dropping it tears its fields down, the
\* wrapped computation included, on the dropping thread.
drop_future(self, t) ==
    Outcome("ok", None,
            IF needs_drop(self.inner[1].ty) THEN <<"teardown">> ELSE <<>>, NoFut)

\* ----------------------------------------------------------------- actions
\* A call that panics inside the process leaves it running (the caller's
\* thread unwinds and the object, held behind a reference, survives); an
\* abort ends every thread.
Record(op, t, c, ty, stored, o) ==
    /\ last' = Call(op, t, c, ty, stored, o.result, o.value, o.events)
    /\ aborted' = (o.result = "abort")
    /\ UNCHANGED syncVars

\* written after a call: v in slot c, nothing for a slot without a live cell.
Written(c, v) ==
    written' = [d \in CellIds |->
                  IF cell'[d].st # "live" THEN NoValue
                  ELSE IF d = c THEN v ELSE written[d]]

New(t, ty, v) ==
    /\ ~aborted
    /\ v \in ValuesOf(ty)
    /\ FreeSlots # {}
    /\ LET c == FirstFree
           s == new(t, ty, v)
       IN /\ cell' = [cell EXCEPT ![c] = s]
          /\ Record("new", t, c, ty, s.thread_id, Outcome("ok", None, <<>>, s))
          /\ Written(c, v)
    /\ UNCHANGED fut

\* Mutant of MoveCell: the cell takes the identity of the thread it moves to.
MoveCell_rebinding(c, t2) ==
    /\ ~aborted
    /\ cell[c].st = "live"
    /\ cell[c].holder # t2
    /\ cell' = [cell EXCEPT ![c].holder = t2, ![c].thread_id = current_id(t2)]
    /\ Record("move", t2, c, cell[c].ty, cell[c].thread_id,
              Outcome("ok", None, <<>>, cell[c]))
    /\ UNCHANGED <<fut, written>>

\* Ownership of the cell passes from its holder to thread t2 (SendCell: Send).
MoveCell(c, t2) ==
    /\ ~aborted
    /\ cell[c].st = "live"
    /\ cell[c].holder # t2
    /\ cell' = [cell EXCEPT ![c].holder = t2]
    /\ Record("move", t2, c, cell[c].ty, cell[c].thread_id,
              Outcome("ok", None, <<>>, cell[c]))
    /\ UNCHANGED <<fut, written>>

Get(t, c) ==
    /\ Holds(t, c)
    /\ LET o == get(cell[c], t)
       IN /\ cell' = [cell EXCEPT ![c] = o.self]
          /\ Record("get", t, c, cell[c].ty, cell[c].thread_id, o)
    /\ Written(c, written[c])
    /\ UNCHANGED fut

GetMut(t, c, w) ==
    /\ Holds(t, c)
    /\ w \in ValuesOf(cell[c].ty)
    /\ LET o == get_mut(cell[c], t, w)
       IN /\ cell' = [cell EXCEPT ![c] = o.self]
          /\ Record("get_mut", t, c, cell[c].ty, cell[c].thread_id, o)
          /\ Written(c, IF o.result = "ok" THEN w ELSE written[c])
    /\ UNCHANGED fut

GetUnchecked(t, c) ==
    /\ Holds(t, c)
    /\ LET o == get_unchecked(cell[c])
       IN /\ cell' = [cell EXCEPT ![c] = o.self]
          /\ Record("get_unchecked", t, c, cell[c].ty, cell[c].thread_id, o)
    /\ Written(c, written[c])
    /\ UNCHANGED fut

GetUncheckedMut(t, c, w) ==
    /\ Holds(t, c)
    /\ w \in ValuesOf(cell[c].ty)
    /\ LET o == get_unchecked_mut(cell[c], w)
       IN /\ cell' = [cell EXCEPT ![c] = o.self]
          /\ Record("get_unchecked_mut", t, c, cell[c].ty, cell[c].thread_id, o)
          /\ Written(c, IF o.result = "ok" THEN w ELSE written[c])
    /\ UNCHANGED fut

IntoInner(t, c) ==
    /\ Holds(t, c)
    /\ \E leaked \in LeakChoices(cell[c], t) :
         LET o == into_inner(cell[c], t, leaked)
         IN /\ cell' = [cell EXCEPT ![c] = o.self]
            /\ Record("into_inner", t, c, cell[c].ty, cell[c].thread_id, o)
    /\ Written(c, written[c])
    /\ UNCHANGED fut

IntoUncheckedInner(t, c) ==
    /\ Holds(t, c)
    /\ \E leaked \in LeakChoices(cell[c], t) :
         LET o == into_unchecked_inner(cell[c], t, leaked)
         IN /\ cell' = [cell EXCEPT ![c] = o.self]
            /\ Record("into_unchecked_inner", t, c, cell[c].ty, cell[c].thread_id, o)
    /\ Written(c, written[c])
    /\ UNCHANGED fut

PreservingCellThread(t, c, ty, v) ==
    /\ Holds(t, c)
    /\ v \in ValuesOf(ty)
    /\ FreeSlots # {}
    /\ LET s == preserving_cell_thread(cell[c], t, ty, v)
       IN /\ cell' = [cell EXCEPT ![FirstFree] = s]
          /\ Record("preserving_cell_thread", t, c, cell[c].ty, cell[c].thread_id,
                    Outcome("ok", Some(s), <<>>, s))
    /\ Written(FirstFree, v)
    /\ UNCHANGED fut

Copying(t, c) ==
    /\ Holds(t, c)
    /\ IsCopy(cell[c].ty)
    /\ FreeSlots # {}
    /\ LET o == copying(cell[c], t)
       IN /\ cell' = [cell EXCEPT ![FirstFree] = o.self]
          /\ Record("copying", t, c, cell[c].ty, cell[c].thread_id, o)
    /\ Written(FirstFree, written[c])
    /\ UNCHANGED fut

IntoFuture(t, c) ==
    /\ Holds(t, c)
    /\ IsFuture(cell[c].ty)
    /\ \E leaked \in LeakChoices(cell[c], t) :
         LET r == into_future(cell[c], t, leaked)
         IN /\ cell' = [cell EXCEPT ![c] = r[1].self]
            /\ fut' = [fut EXCEPT ![c] = r[2]]
            /\ Record("into_future", t, c, cell[c].ty, cell[c].thread_id, r[1])
    /\ Written(c, written[c])

\* The holder lets the cell go out of scope.
Drop(t, c) ==
    /\ Holds(t, c)
    /\ LET o == drop(cell[c], t, FALSE)
       IN /\ cell' = [cell EXCEPT ![c] = o.self]
          /\ Record("drop", t, c, cell[c].ty, cell[c].thread_id, o)
    /\ Written(c, written[c])
    /\ UNCHANGED fut

\* Ownership of the future passes to thread t2 (unsafe impl Send).
MoveFuture(c, t2) ==
    /\ ~aborted
    /\ fut[c].st = "live"
    /\ fut[c].holder # t2
    /\ fut' = [fut EXCEPT ![c].holder = t2]
    /\ Record("move_future", t2, c, fut[c].inner[1].ty, fut[c].thread_id,
              Outcome("ok", None, <<>>, fut[c]))
    /\ UNCHANGED <<cell, written>>

\* A poll; the count of successful polls is capped at MaxPolls.
Poll(t, c) ==
    /\ HoldsFut(t, c)
    /\ fut[c].npolls < MaxPolls
    /\ LET o == poll(fut[c], t)
       IN /\ fut' = [fut EXCEPT ![c] = o.self]
          /\ Record("poll", t, c, fut[c].inner[1].ty, fut[c].thread_id, o)
    /\ UNCHANGED <<cell, written>>

\* The holder lets the future go out of scope.
DropFuture(t, c) ==
    /\ HoldsFut(t, c)
    /\ LET o == drop_future(fut[c], t)
       IN /\ fut' = [fut EXCEPT ![c] = o.self]
          /\ Record("drop_future", t, c, fut[c].inner[1].ty, fut[c].thread_id, o)
    /\ UNCHANGED <<cell, written>>

\* A read through one of the delegating traits: op names the trait method.
DelegatedRead(op, o, t, c) ==
    /\ cell' = [cell EXCEPT ![c] = o.self]
    /\ Record(op, t, c, cell[c].ty, cell[c].thread_id, o)
    /\ Written(c, written[c])
    /\ UNCHANGED fut

\* A write through one of them.
DelegatedWrite(op, o, t, c, w) ==
    /\ cell' = [cell EXCEPT ![c] = o.self]
    /\ Record(op, t, c, cell[c].ty, cell[c].thread_id, o)
    /\ Written(c, IF o.result = "ok" THEN w ELSE written[c])
    /\ UNCHANGED fut

Fmt(t, c) ==
    /\ Holds(t, c)
    /\ HasDebug(cell[c].ty)
    /\ DelegatedRead("fmt", fmt(cell[c], t), t, c)

AsRef(t, c) ==
    /\ Holds(t, c)
    /\ DelegatedRead("as_ref", as_ref(cell[c], t), t, c)

AsMut(t, c, w) ==
    /\ Holds(t, c)
    /\ w \in ValuesOf(cell[c].ty)
    /\ DelegatedWrite("as_mut", as_mut(cell[c], t, w), t, c, w)

Deref(t, c) ==
    /\ Holds(t, c)
    /\ DelegatedRead("deref", deref(cell[c], t), t, c)

DerefMut(t, c, w) ==
    /\ Holds(t, c)
    /\ w \in ValuesOf(cell[c].ty)
    /\ DelegatedWrite("deref_mut", deref_mut(cell[c], t, w), t, c, w)

\* The operations that need no unsafe block.
SafeNext ==
    \/ \E t \in Threads, ty \in Types, v \in Values : New(t, ty, v)
    \/ \E c \in CellIds, t \in Threads : MoveCell(c, t)
    \/ \E t \in Threads, c \in CellIds : Get(t, c)
    \/ \E t \in Threads, c \in CellIds, w \in Values : GetMut(t, c, w)
    \/ \E t \in Threads, c \in CellIds : IntoInner(t, c)
    \/ \E t \in Threads, c \in CellIds : Copying(t, c)
    \/ \E t \in Threads, c \in CellIds : IntoFuture(t, c)
    \/ \E t \in Threads, c \in CellIds : Drop(t, c)
    \/ \E c \in CellIds, t \in Threads : MoveFuture(c, t)
    \/ \E t \in Threads, c \in CellIds : Poll(t, c)
    \/ \E t \in Threads, c \in CellIds : DropFuture(t, c)

\* The operations that need one.
UnsafeNext ==
    \/ \E t \in Threads, c \in CellIds : GetUnchecked(t, c)
    \/ \E t \in Threads, c \in CellIds, w \in Values : GetUncheckedMut(t, c, w)
    \/ \E t \in Threads, c \in CellIds : IntoUncheckedInner(t, c)
    \/ \E t \in Threads, c \in CellIds, ty \in Types, v \in Values :
         PreservingCellThread(t, c, ty, v)

Next == SafeNext \/ UnsafeNext

Spec == Init /\ [][Next]_vars

\* Programs written without unsafe blocks.
SafeSpec == Init /\ [][SafeNext]_vars

\* Programs that reach the payload through the accessors and the delegating
\* traits and consume the cell by value.
DelegatedNext ==
    \/ \E t \in Threads, ty \in Types, v \in Values : New(t, ty, v)
    \/ \E c \in CellIds, t \in Threads : MoveCell(c, t)
    \/ \E t \in Threads, c \in CellIds : Get(t, c)
    \/ \E t \in Threads, c \in CellIds, w \in Values : GetMut(t, c, w)
    \/ \E t \in Threads, c \in CellIds : Fmt(t, c)
    \/ \E t \in Threads, c \in CellIds : AsRef(t, c)
    \/ \E t \in Threads, c \in CellIds, w \in Values : AsMut(t, c, w)
    \/ \E t \in Threads, c \in CellIds : Deref(t, c)
    \/ \E t \in Threads, c \in CellIds, w \in Values : DerefMut(t, c, w)
    \/ \E t \in Threads, c \in CellIds : IntoInner(t, c)

DelegatedSpec == Init /\ [][DelegatedNext]_vars

\* ---------------------------------------------------------------- SyncCell
\* Threads share one SyncCell<i32> and call with(|v| *v) and
\* with_mut(|v| *v += 1); a closure may also panic before it writes.

\* Mutant of lock: the mutex is taken whoever holds it.
lock_barging(m, t) == [acquired |-> TRUE, holder |-> t]

\* Mutex::lock by thread t on a mutex held by m: blocks while it is held.
lock(m, t) ==
    IF m = NoThread THEN [acquired |-> TRUE, holder |-> t]
    ELSE [acquired |-> FALSE, holder |-> m]

\* The guard of thread t goes out of scope.
unlock(m, t) == IF m = t THEN NoThread ELSE m

\* Mutant of with_exit: the guard is forgotten when the closure unwinds.
with_exit_forgets_on_unwind(m, t, unwinding) ==
    IF unwinding THEN m ELSE unlock(m, t)

\* The exit of with/with_mut, by return or by unwinding: the gate is
\* released on every exit path.
with_exit(m, t, unwinding) == unlock(m, t)

\* Mutant of Enter: the closure is entered without the gate.
Enter_without_lock(t, call) ==
    /\ thr[t].pc = "out"
    /\ thr' = [thr EXCEPT ![t].call = call, ![t].pc = "locked", ![t].res = "none"]
    /\ UNCHANGED <<sync, cellVars>>

\* Thread t calls with (call = "with") or with_mut and acquires the gate. A
\* poisoned mutex is entered as well: the policy that clears poisoning.
Enter(t, call) ==
    /\ thr[t].pc = "out"
    /\ LET l == lock(sync.mutex, t)
       IN /\ l.acquired
          /\ sync' = [sync EXCEPT !.mutex = l.holder]
    /\ thr' = [thr EXCEPT ![t].call = call, ![t].pc = "locked", ![t].res = "none"]
    /\ UNCHANGED cellVars

\* SyncCell::with_mut
WithMutEnter(t) ==
    /\ thr[t].returned < MaxCalls
    /\ Enter(t, "with_mut")

\* SyncCell::with
WithEnter(t) ==
    /\ thr[t].call = "none"
    /\ Enter(t, "with")

\* The policy that propagates poisoning: the call of thread t acquires a
\* poisoned mutex and fails without running the closure.
LockPoisoned(t) ==
    /\ thr[t].pc = "out"
    /\ sync.poisoned
    /\ LET l == lock(sync.mutex, t)
       IN /\ l.acquired
          /\ sync' = [sync EXCEPT !.mutex = with_exit(l.holder, t, TRUE)]
    /\ thr' = [thr EXCEPT ![t] = Outside(thr[t].returned, "panicked")]
    /\ UNCHANGED cellVars

\* The closure of thread t reads the value.
ClosureRead(t) ==
    /\ thr[t].pc = "locked"
    /\ thr' = [thr EXCEPT ![t].tmp = sync.value, ![t].pc = "read"]
    /\ UNCHANGED <<sync, cellVars>>

\* The closure of with_mut writes the value it read, plus one.
ClosureWrite(t) ==
    /\ thr[t].call = "with_mut"
    /\ thr[t].pc = "read"
    /\ sync' = [sync EXCEPT !.value = thr[t].tmp + 1]
    /\ thr' = [thr EXCEPT ![t].pc = "written"]
    /\ UNCHANGED cellVars

\* The closure returns and with/with_mut returns its result.
WithReturn(t) ==
    /\ \/ thr[t].call = "with" /\ thr[t].pc = "read"
       \/ thr[t].call = "with_mut" /\ thr[t].pc = "written"
    /\ sync' = [sync EXCEPT !.mutex = with_exit(sync.mutex, t, FALSE)]
    /\ thr' = [thr EXCEPT ![t] =
                 Outside(thr[t].returned + (IF thr[t].call = "with_mut" THEN 1 ELSE 0),
                         "returned")]
    /\ UNCHANGED cellVars

\* The closure panics before it has written; with/with_mut unwinds.
ClosureUnwind(t) ==
    /\ thr[t].pc \in {"locked", "read"}
    /\ sync' = [sync EXCEPT !.mutex = with_exit(sync.mutex, t, TRUE),
                            !.poisoned = TRUE]
    /\ thr' = [thr EXCEPT ![t] = Outside(thr[t].returned, "panicked")]
    /\ UNCHANGED cellVars

SyncNext ==
    \/ \E t \in Threads : WithMutEnter(t)
    \/ \E t \in Threads : WithEnter(t)
    \/ \E t \in Threads : LockPoisoned(t)
    \/ \E t \in Threads : ClosureRead(t)
    \/ \E t \in Threads : ClosureWrite(t)
    \/ \E t \in Threads : WithReturn(t)
    \/ \E t \in Threads : ClosureUnwind(t)

SyncSpec == Init /\ [][SyncNext]_vars

\* ------------------------------------------------------------------ claims
Range(s) == {s[i] : i \in DOMAIN s}

OnCreationThread == current_id(last.t) = last.stored

\* C1: get(), get_mut() and into_inner() called by a thread other than the
\* one the cell was created on fail with an AffinityViolation and return
\* nothing, for every payload type and wherever the cell has been moved.
C1_WrongThreadCheckedOpFails ==
    (last.op \in {"get", "get_mut", "into_inner"} /\ ~OnCreationThread)
        => /\ last.result # "ok"
           /\ last.value = None
           /\ last.events # <<>>
           /\ last.events[1] = "AffinityViolation"

C1_Witness ==
    /\ last.op = "get_mut"
    /\ last.ty = "Rc"
    /\ ~OnCreationThread
    /\ last.result = "panic"

\* C2: over the safe operations, a payload with a destructor that was
\* wrapped in a SendCell is torn down only by the thread whose identity the
\* cell stored at construction.
C2_TeardownOnlyOnCreationThread ==
    "teardown" \in Range(last.events) => OnCreationThread

\* C3: dropping a SendCell whose payload has a destructor on a thread other
\* than the creation thread fails with AffinityViolation, and no teardown of
\* the payload runs before the failure.
C3_WrongThreadDropFailsFirst ==
    (last.op = "drop" /\ needs_drop(last.ty) /\ ~OnCreationThread)
        => /\ last.result = "panic"
           /\ \A i \in DOMAIN last.events :
                last.events[i] = "teardown"
                    => \E j \in 1..(i - 1) : last.events[j] = "AffinityViolation"

C3_Witness ==
    /\ last.op = "drop"
    /\ needs_drop(last.ty)
    /\ ~OnCreationThread
    /\ last.events = <<"AffinityViolation", "teardown">>

\* C4: dropping a SendCell whose payload has no destructor never fails,
\* whichever thread drops it: no identity is asserted.
C4_TrivialDropNeverFails ==
    (last.op = "drop" /\ ~needs_drop(last.ty))
        => last.result = "ok" /\ last.events = <<>>

C4_Witness ==
    /\ last.op = "drop"
    /\ ~needs_drop(last.ty)
    /\ ~OnCreationThread
    /\ last.result = "ok"

\* C5: on the creation thread get() succeeds and returns the value the cell
\* holds: the one given to new() or, after a mutation, the one most
\* recently written through the &mut T, however the cell has been moved.
C5_GetReturnsCurrentValue ==
    (last.op = "get" /\ OnCreationThread)
        => /\ last.result = "ok"
           /\ last.value # None
           /\ last.value[1].ty = last.ty
           /\ last.value[1].val = written[last.c]

C5_Witness ==
    /\ last.op = "get"
    /\ OnCreationThread
    /\ last.ty = "Rc"
    /\ last.result = "ok"
    /\ last.value[1].val = MaxValue

\* C6: into_inner() on the creation thread returns the value the cell was
\* built from (or last written with) and raises no AffinityViolation, the
\* destruction of the consumed cell included.
C6_IntoInnerRoundTrip ==
    [][(last'.op = "into_inner" /\ current_id(last'.t) = last'.stored)
        => /\ last'.result = "ok"
           /\ last'.value = cell[last'.c].inner
           /\ last'.value # None
           /\ last'.value[1].val = written[last'.c]
           /\ "AffinityViolation" \notin Range(last'.events)]_vars

C6_Witness ==
    /\ last.op = "into_inner"
    /\ OnCreationThread
    /\ last.ty = "Rc"
    /\ last.result = "ok"
    /\ last.value[1].val = MaxValue

\* C7: poll() of a SendFuture by a thread other than the stored one fails
\* before the wrapped computation is touched: the failed poll leaves the
\* future, and so every outcome seen later, as it was.
C7_WrongThreadPollTouchesNothing ==
    [][(last'.op = "poll" /\ current_id(last'.t) # last'.stored)
        => /\ last'.result = "panic"
           /\ last'.events = <<"AffinityViolation">>
           /\ fut' = fut
           /\ cell' = cell]_vars

C7_Witness ==
    /\ last.op = "poll"
    /\ ~OnCreationThread
    /\ last.result = "panic"
    /\ fut[last.c].npolls = 1

\* The wrapped computation polled directly k times (k >= 1), from state p:
\* <<computation after the k-th poll, outcome of the k-th poll>>.
RECURSIVE DirectPoll(_, _)
DirectPoll(p, k) ==
    IF k <= 1 THEN NonSendFuture_poll(p)
    ELSE NonSendFuture_poll(DirectPoll(p, k - 1)[1])

\* C8: a SendFuture polled on its creation thread returns, poll for poll,
\* the outcome the wrapped computation returns when polled directly, and
\* leaves the computation in the same state.
C8_PollMatchesDirectPoll ==
    (last.op = "poll" /\ OnCreationThread)
        => LET f == fut[last.c]
               d == DirectPoll(MakeValue(last.ty, f.inner[1].val), f.npolls)
           IN /\ last.result = "ok"
              /\ last.value = Some(d[2])
              /\ f.inner = Some(d[1])

C8_Witness ==
    /\ last.op = "poll"
    /\ OnCreationThread
    /\ fut[last.c].npolls = 2
    /\ last.value = Some(Ready(ReadyValue))

\* C9: a SendFuture may be moved to any thread, any number of times, without
\* failing and without a change to its stored identity or to the
\* computation; the computation is advanced only by the thread whose
\* identity the future stores.
C9_RelocationFreeAdvanceOwnThread ==
    /\ []("inner.poll" \in Range(last.events) => OnCreationThread)
    /\ [][last'.op = "move_future"
            => /\ last'.result = "ok"
               /\ fut'[last'.c].thread_id = fut[last'.c].thread_id
               /\ fut'[last'.c].inner = fut[last'.c].inner
               /\ fut'[last'.c].npolls = fut[last'.c].npolls]_vars

C9_Witness ==
    /\ last.op = "move_future"
    /\ last.result = "ok"
    /\ fut[last.c].npolls = 1
    /\ current_id(fut[last.c].holder) # fut[last.c].thread_id

\* C10: a SendFuture destroyed before completion has the resources of its
\* computation torn down only on the thread whose identity it stores.
C10_FutureTeardownOnStoredThread ==
    (last.op = "drop_future" /\ "teardown" \in Range(last.events))
        => OnCreationThread

\* C11: into_future() consumes the cell and returns a SendFuture that stores
\* the identity the cell captured at construction, whichever thread calls
\* it: the future polls on the cell's creation thread and fails to poll on
\* every other thread.
C11_IntoFutureKeepsIdentity ==
    (last.op = "into_future" /\ last.result = "ok")
        => /\ cell[last.c].st # "live"
           /\ fut[last.c].st = "live"
           /\ fut[last.c].thread_id = last.stored
           /\ \A t \in Threads :
                poll(fut[last.c], t).result = "ok" <=> current_id(t) = last.stored

C11_Witness ==
    /\ last.op = "into_future"
    /\ last.result = "ok"
    /\ ~OnCreationThread
    /\ fut[last.c].thread_id = last.stored

\* C12: into_unchecked_inner() asserts no identity: called from any thread it
\* consumes the cell and returns the payload without an AffinityViolation,
\* whether or not the payload type has a destructor.
C12_IntoUncheckedInnerNeverFails ==
    last.op = "into_unchecked_inner"
        => /\ last.result = "ok"
           /\ last.value # None
           /\ "AffinityViolation" \notin Range(last.events)

\* C13: every method of SendCell other than the *_unchecked ones (get,
\* get_mut, into_inner, preserving_cell_thread, copying, into_future) panics
\* when called from a thread other than the one the cell was created on.
C13_EveryOtherMethodPanics ==
    (/\ last.op \in {"get", "get_mut", "into_inner", "preserving_cell_thread",
                      "copying", "into_future"}
     /\ ~OnCreationThread)
        => last.result # "ok"

\* C14: preserving_cell_thread(new_value) returns a new SendCell that holds
\* new_value and stores the identity of the original cell, whichever thread
\* calls it: the checked operations of the new cell succeed on the
\* original's creation thread and fail on every other thread.
C14_SiblingInheritsIdentity ==
    last.op = "preserving_cell_thread"
        => /\ last.result = "ok"
           /\ \E d \in CellIds \ {last.c} :
                /\ cell[d] = last.value[1]
                /\ cell[d].thread_id = last.stored
                /\ cell[d].thread_id = cell[last.c].thread_id
                /\ cell[d].inner = Some(MakeValue(cell[d].ty, written[d]))
                /\ \A t \in Threads :
                     LET own == current_id(t) = last.stored
                     IN /\ get(cell[d], t).result = "ok" <=> own
                        /\ get_mut(cell[d], t, 0).result = "ok" <=> own
                        /\ into_inner(cell[d], t, FALSE).result = "ok" <=> own

C14_Witness ==
    /\ last.op = "preserving_cell_thread"
    /\ ~OnCreationThread
    /\ last.value[1].ty = "Rc"
    /\ last.value[1].thread_id = last.stored

\* C15: after copying() the original and the duplicate read equal values
\* and store the same identity; either may then be mutated or destroyed
\* without a change to the other and without failing its own-thread check.
C15_CopyEqualAndIndependent ==
    /\ [](last.op = "copying"
            => /\ last.result = "ok"
               /\ \E d \in CellIds \ {last.c} :
                    /\ cell[d].st = "live"
                    /\ cell[d].inner = cell[last.c].inner
                    /\ cell[d].thread_id = cell[last.c].thread_id
                    /\ get_unchecked(cell[d]).value = get_unchecked(cell[last.c]).value)
    /\ []((IsCopy(last.ty) /\ (last.op = "drop" \/ (last.op = "get_mut" /\ OnCreationThread)))
            => last.result = "ok")
    /\ [][\A d \in CellIds :
            (d # last'.c /\ last'.op \in {"get_mut", "get_unchecked_mut", "drop",
                                          "into_inner", "into_unchecked_inner"})
                => cell'[d] = cell[d] /\ written'[d] = written[d]]_vars

C15_Witness ==
    /\ last.op = "copying"
    /\ ~OnCreationThread
    /\ cell[1].inner = cell[2].inner
    /\ cell[1].inner[1].val = MaxValue

\* The threads inside a closure of with/with_mut.
Inside == {t \in Threads : thr[t].pc # "out"}

\* C16: no lost updates. When each of the NumThreads threads has returned
\* from MaxCalls calls of with_mut(|v| *v += 1) and no thread is inside a
\* call, the value is NumThreads * MaxCalls, under every interleaving.
C16_NoLostUpdates ==
    (\A t \in Threads : thr[t].pc = "out" /\ thr[t].returned = MaxCalls)
        => sync.value = NumThreads * MaxCalls

C16_Witness ==
    /\ \A t \in Threads : thr[t].pc = "out" /\ thr[t].returned = MaxCalls
    /\ sync.value = NumThreads * MaxCalls
    /\ sync.mutex = NoThread

\* C17: mutual exclusion. At most one thread is inside a closure of
\* with/with_mut, and a thread that is inside, and so reads or writes the
\* value, holds the gate.
C17_MutualExclusion ==
    /\ Cardinality(Inside) <= 1
    /\ \A t \in Inside : sync.mutex = t

C17_Witness ==
    \E t \in Threads, u \in Threads :
        /\ t # u
        /\ thr[t].pc = "written"
        /\ sync.mutex = t
        /\ thr[u].res = "returned"
        /\ thr[u].returned > 0

\* C18: the gate is released on every exit path. A thread whose call of
\* with/with_mut has finished, by return or by unwinding, does not hold the
\* gate: the gate is held only by a thread that is inside with/with_mut.
C18_GateReleasedOnEveryExit ==
    /\ \A t \in Threads :
         (thr[t].pc = "out" /\ thr[t].res \in {"returned", "panicked"})
             => sync.mutex # t
    /\ sync.mutex # NoThread => sync.mutex \in Inside

C18_Witness ==
    \E t \in Threads, u \in Threads :
        /\ t # u
        /\ thr[t].pc = "out"
        /\ thr[t].res = "panicked"
        /\ sync.poisoned
        /\ sync.mutex = u
        /\ thr[u].pc = "read"

\* C19: a SendCell is never observably empty. The payload slot is emptied
\* only inside into_inner, into_unchecked_inner and into_future, which
\* consume the cell: every cell a thread can call get, get_mut,
\* get_unchecked, get_unchecked_mut, copying or a delegated accessor on
\* holds its payload, and none of them fails with "gone".
C19_NeverObservablyEmpty ==
    /\ "gone" \notin Range(last.events)
    /\ "inner value missing" \notin Range(last.events)
    /\ \A c \in CellIds :
         cell[c].st = "live"
             => /\ cell[c].inner # None
                /\ \A t \in Threads :
                     /\ "gone" \notin Range(get(cell[c], t).events)
                     /\ "gone" \notin Range(get_mut(cell[c], t, 0).events)
                     /\ "gone" \notin Range(get_unchecked(cell[c]).events)
                     /\ "gone" \notin Range(get_unchecked_mut(cell[c], 0).events)
                     /\ "gone" \notin Range(copying(cell[c], t).events)
                     /\ "gone" \notin Range(deref(cell[c], t).events)
                     /\ "gone" \notin Range(deref_mut(cell[c], t, 0).events)
                     /\ "gone" \notin Range(as_ref(cell[c], t).events)
                     /\ "gone" \notin Range(as_mut(cell[c], t, 0).events)
                     /\ "gone" \notin Range(fmt(cell[c], t).events)

C19_Witness ==
    /\ last.op \in {"into_inner", "into_unchecked_inner"}
    /\ last.result = "ok"
    /\ last.value # None
    /\ cell[last.c].st # "live"
    /\ \E d \in CellIds : cell[d].st = "live"

\* C20: Deref, AsRef and Debug behave like get(), DerefMut and AsMut like
\* get_mut(): on the creation thread they return, with the value (for
\* Debug, the formatted value) the checked accessor yields; from any other
\* thread they fail with the same AffinityViolation and return nothing.
C20_DelegatedLikeChecked ==
    /\ last.op \in {"deref", "as_ref", "fmt"}
         => LET g == get(cell[last.c], last.t)
            IN /\ last.result = g.result
               /\ last.events = g.events
               /\ last.value = IF last.op = "fmt" /\ g.result = "ok"
                                THEN Some(Debug_fmt(g.value[1]))
                                ELSE g.value
               /\ OnCreationThread
                    => /\ last.result = "ok"
                       /\ g.value = Some(MakeValue(last.ty, written[last.c]))
               /\ ~OnCreationThread
                    => /\ last.result = "panic"
                       /\ last.events = <<"AffinityViolation">>
                       /\ last.value = None
    /\ last.op \in {"deref_mut", "as_mut"}
         => LET g == get_mut(cell[last.c], last.t, written[last.c])
            IN /\ last.result = g.result
               /\ last.events = g.events
               /\ last.value = g.value
               /\ cell[last.c] = g.self
               /\ OnCreationThread
                    => /\ last.result = "ok"
                       /\ last.value = Some(MakeValue(last.ty, written[last.c]))
               /\ ~OnCreationThread
                    => /\ last.result = "panic"
                       /\ last.events = <<"AffinityViolation">>
                       /\ last.value = None

C20_Witness ==
    /\ last.op = "deref"
    /\ ~OnCreationThread
    /\ last.result = "panic"
    /\ written[last.c] = MaxValue

\* The number of teardowns of a payload among the events of a call.
Teardowns(ev) == Cardinality({i \in DOMAIN ev : ev[i] = "teardown"})

\* C21: a payload has one owner at a time and is torn down at most once.
\* No call tears a payload down twice; a slot never holds both a cell and
\* the future made from it; after into_inner / into_unchecked_inner
\* returned the payload the caller owns it, after into_future returned the
\* future owns it, and in both cases the destruction of the emptied cell
\* tore nothing down.
C21_OneOwnerOneTeardown ==
    /\ Teardowns(last.events) <= 1
    /\ \A c \in CellIds : ~(cell[c].st = "live" /\ fut[c].st = "live")
    /\ (last.op \in {"into_inner", "into_unchecked_inner"} /\ last.result = "ok")
         => /\ last.value # None
            /\ last.value[1].ty = last.ty
            /\ cell[last.c].st # "live"
            /\ fut[last.c].st # "live"
            /\ Teardowns(last.events) = 0
    /\ (last.op = "into_future" /\ last.result = "ok")
         => /\ last.value = None
            /\ cell[last.c].st # "live"
            /\ fut[last.c].st = "live"
            /\ fut[last.c].inner # None
            /\ fut[last.c].inner[1].ty = last.ty
            /\ Teardowns(last.events) = 0
    /\ (last.op \in {"into_inner", "into_unchecked_inner", "into_future", "drop"}
          /\ last.result = "panic")
         => /\ last.value = None
            /\ cell[last.c].st # "live"
            /\ fut[last.c].st # "live"
    /\ (last.op = "drop" /\ last.result = "ok")
         => /\ cell[last.c].st # "live"
            /\ Teardowns(last.events) = IF needs_drop(last.ty) THEN 1 ELSE 0

C21_Witness ==
    /\ last.op = "into_inner"
    /\ last.result = "ok"
    /\ last.ty = "Rc"
    /\ last.value # None
    /\ last.events = <<>>

\* C22: the identity stored in a SendCell or SendFuture is fixed at
\* construction. new stores the identity of the constructing thread; after
\* get, get_mut, the unchecked accessors, copying, preserving_cell_thread,
\* poll or a move of the object to another thread the object stores the
\* identity it stored before; the future made by into_future stores the
\* identity of the cell.
C22_IdentityFixed ==
    /\ last.op = "new" => cell[last.c].thread_id = current_id(last.t)
    /\ (last.op \in {"get", "get_mut", "get_unchecked", "get_unchecked_mut", "copying",
                      "preserving_cell_thread", "move"}
          /\ cell[last.c].st = "live")
         => cell[last.c].thread_id = last.stored
    /\ (last.op \in {"poll", "move_future"} /\ fut[last.c].st = "live")
         => fut[last.c].thread_id = last.stored
    /\ (last.op = "into_future" /\ fut[last.c].st = "live")
         => fut[last.c].thread_id = last.stored

C22_Witness ==
    /\ last.op = "move"
    /\ cell[last.c].st = "live"
    /\ cell[last.c].holder # cell[last.c].thread_id
    /\ cell[last.c].thread_id = last.stored

\* C23: a checked access that fails leaves the cell unchanged. After get()
\* or get_mut() raised AffinityViolation the cell is still there, with the
\* identity it had and the payload last stored in it, and get() on the
\* creation thread returns that payload.
C23_FailedAccessChangesNothing ==
    (last.op \in {"get", "get_mut"} /\ last.result = "panic")
        => /\ last.events = <<"AffinityViolation">>
           /\ cell[last.c].st = "live"
           /\ cell[last.c].thread_id = last.stored
           /\ cell[last.c].inner = Some(MakeValue(last.ty, written[last.c]))
           /\ \A t \in Threads :
                current_id(t) = last.stored
                    => /\ get(cell[last.c], t).result = "ok"
                       /\ get(cell[last.c], t).value
                            = Some(MakeValue(last.ty, written[last.c]))

C23_Witness ==
    /\ last.op = "get_mut"
    /\ last.result = "panic"
    /\ ~OnCreationThread
    /\ written[last.c] = MaxValue

\* C24: get_unchecked() and get_unchecked_mut() assert no identity: called
\* from any thread they return a reference to the current payload and
\* raise no AffinityViolation.
C24_UncheckedAccessNeverFails ==
    last.op \in {"get_unchecked", "get_unchecked_mut"}
        => /\ last.result = "ok"
           /\ "AffinityViolation" \notin Range(last.events)
           /\ last.value = Some(MakeValue(last.ty, written[last.c]))
           /\ last.value = cell[last.c].inner

C24_Witness ==
    /\ last.op = "get_unchecked"
    /\ ~OnCreationThread
    /\ last.result = "ok"
    /\ last.value = Some(MakeValue(last.ty, MaxValue))

====
